---------------------------- MODULE Spec2Model ----------------------------
(***************************************************************************)
(* A model of src/src/app/projects/page.tsx: the ProjectsPage component,   *)
(* its visibility-resolution effect, its membership handlers and its       *)
(* project creator, together with the backing store the handlers talk to.  *)
(*                                                                         *)
(* Every `await supabase...` is split in three steps: the request is       *)
(* issued by the handler, the store serves it at some later point (reading *)
(* or writing the tables as they are then), and the response is delivered  *)
(* to the suspended handler later still.  Handlers are single-threaded     *)
(* continuations, so each step is atomic.                                  *)
(*                                                                         *)
(* Strings: a project name is a sequence of characters, msg is the         *)
(* sequence of its newline-separated lines (<<>> is the empty string).     *)
(* Tri-state flags are "true", "false" and "null".  parent_id and         *)
(* manager_id are never read by the logic and are left out of the rows.    *)
(***************************************************************************)
EXTENDS Naturals, Sequences, FiniteSets, Bags, TLC

VARIABLES
    viewer,            \* useProfile(): [org, uid, role]; "" when unresolved
    focusUser,         \* sp.get("user") || ""
    projects,          \* useState<ProjectRow[]>
    orgProfiles,       \* useState<ProfileRow[]>
    membersByProject,  \* useState<Record<string, MemberRow[]>>: project id -> rows
    msg,               \* useState("")
    busy,              \* useState(false)
    newName,           \* useState("")
    dbProjects,        \* store table projects
    dbMembers,         \* store table project_members
    tasks,             \* suspended async activations (a bag)
    ops,               \* history: number of user actions so far
    staleAdd           \* history: addMember was invoked on a stale candidate list

vars == <<viewer, focusUser, projects, orgProfiles, membersByProject, msg,
          busy, newName, dbProjects, dbMembers, tasks, ops, staleAdd>>

history == <<ops, staleAdd>>

ui == <<projects, orgProfiles, membersByProject, msg, busy, newName>>

-----------------------------------------------------------------------------
(* Bounds *)

MaxOps == 3

MaxListOps == 2

MaxMemberOps == 2

MaxAccessOps == 3

-----------------------------------------------------------------------------
(* Strings *)

Rank(c) == CASE c = " " -> 0 [] c = "a" -> 1 [] c = "b" -> 2 [] c = "c" -> 3

RECURSIVE StrLess(_, _)
StrLess(a, b) ==
    IF b = <<>> THEN FALSE
    ELSE IF a = <<>> THEN TRUE
    ELSE IF Rank(Head(a)) # Rank(Head(b)) THEN Rank(Head(a)) < Rank(Head(b))
    ELSE StrLess(Tail(a), Tail(b))

RECURSIVE TrimStart(_)
TrimStart(s) ==
    IF s # <<>> /\ Head(s) = " " THEN TrimStart(Tail(s)) ELSE s

RECURSIVE TrimEnd(_)
TrimEnd(s) ==
    IF s # <<>> /\ s[Len(s)] = " " THEN TrimEnd(SubSeq(s, 1, Len(s) - 1)) ELSE s

Trim(s) == TrimEnd(TrimStart(s))

NameInputs == { <<" ">>, <<" ", "a", " ">> }

RejectMessage == "Only admin/manager can create projects."

-----------------------------------------------------------------------------
(* Sequences *)

Range(s) == { s[i] : i \in DOMAIN s }

RECURSIVE PermSeqs(_)
PermSeqs(S) ==
    IF S = {} THEN { <<>> }
    ELSE UNION { { <<x>> \o s : s \in PermSeqs(S \ {x}) } : x \in S }

IsSortedByName(s) ==
    \A i, j \in DOMAIN s : i < j => ~StrLess(s[j].name, s[i].name)

RECURSIVE InsertByName(_, _)
InsertByName(row, s) ==
    IF s = <<>> THEN <<row>>
    ELSE IF StrLess(row.name, Head(s).name) THEN <<row>> \o s
    ELSE <<Head(s)>> \o InsertByName(row, Tail(s))

RECURSIVE SortByName(_)
SortByName(s) ==
    IF s = <<>> THEN <<>>
    ELSE InsertByName(s[Len(s)], SortByName(SubSeq(s, 1, Len(s) - 1)))

-----------------------------------------------------------------------------
(* Identity: useProfile() and the derived isAdminOrManager *)

Unresolved == [org |-> "", uid |-> "", role |-> ""]

Viewers ==
    { [org |-> "o1", uid |-> "uA", role |-> "admin"],
      [org |-> "o1", uid |-> "uM", role |-> "manager"],
      [org |-> "o1", uid |-> "uB", role |-> "contractor"] }

IsAdminOrManager(v) == v.role = "admin" \/ v.role = "manager"

Deps(v) == <<v.org, v.uid, IsAdminOrManager(v)>>

-----------------------------------------------------------------------------
(* The store *)

TriState == { "true", "false", "null" }

\* Table profiles; the page only reads it.
DbProfiles ==
    { [id |-> "uA", org_id |-> "o1", role |-> "admin",      full_name |-> <<"a">>, is_active |-> "true"],
      [id |-> "uM", org_id |-> "o1", role |-> "manager",    full_name |-> <<"a">>, is_active |-> "true"],
      [id |-> "uB", org_id |-> "o1", role |-> "contractor", full_name |-> <<"b">>, is_active |-> "true"],
      [id |-> "uD", org_id |-> "o1", role |-> "contractor", full_name |-> <<"a">>, is_active |-> "false"],
      [id |-> "uE", org_id |-> "o2", role |-> "contractor", full_name |-> <<"c">>, is_active |-> "true"] }

ProjectRow(id, org, name, active) ==
    [id |-> id, org_id |-> org, name |-> name, is_active |-> active]

MemberRow(id, proj, prof, active) ==
    [id |-> id, project_id |-> proj, profile_id |-> prof, is_active |-> active]

\* What a join finds when the project is missing: filter(Boolean) drops it.
NullProject == ProjectRow(0, "", <<>>, "null")

Ids(S) == { r.id : r \in S }

RECURSIVE MaxOf(_)
MaxOf(S) ==
    IF S = {} THEN 0
    ELSE LET x == CHOOSE x \in S : TRUE
             m == MaxOf(S \ {x})
         IN  IF x > m THEN x ELSE m

\* The store generates the id of an inserted row.
FreshId(S) == MaxOf(Ids(S)) + 1

RoleRank(r) == CASE r = "admin" -> 0 [] r = "contractor" -> 1 [] r = "manager" -> 2

ProfileBefore(a, b) ==
    \/ RoleRank(a.role) < RoleRank(b.role)
    \/ a.role = b.role /\ StrLess(a.full_name, b.full_name)

\* select ... from profiles where org_id = org and is_active = true
\* order by role, full_name
SelectProfiles(org) ==
    { s \in PermSeqs({ r \in DbProfiles : r.org_id = org /\ r.is_active = "true" }) :
        \A i, j \in DOMAIN s : i < j => ~ProfileBefore(s[j], s[i]) }

\* Variant: the select without its order clause.
SelectProjectsUnordered(db, org) == PermSeqs({ r \in db : r.org_id = org })

\* select ... from projects where org_id = org order by name
SelectProjects(db, org) ==
    { s \in PermSeqs({ r \in db : r.org_id = org }) : IsSortedByName(s) }

JoinedProject(db, pid) ==
    IF \E p \in db : p.id = pid THEN CHOOSE p \in db : p.id = pid ELSE NullProject

\* select project_id, projects(...) from project_members
\* where profile_id = uid and is_active = true        (no order)
SelectMemberProjects(dbP, dbM, uid) ==
    { [i \in DOMAIN s |-> [project_id |-> s[i].project_id,
                           projects   |-> JoinedProject(dbP, s[i].project_id)]] :
        s \in PermSeqs({ m \in dbM : m.profile_id = uid /\ m.is_active = "true" }) }

\* select ... from project_members where project_id = p and is_active = true
\* The select has no order and the page reads the rows only through some()
\* and map(): a list of membership rows is kept as the set of its rows.
SelectMembers(dbM, p) ==
    { m \in dbM : m.project_id = p /\ m.is_active = "true" }

-----------------------------------------------------------------------------
(* Suspended async activations *)

NoTask ==
    [kind |-> "", pc |-> "", org |-> "", uid |-> "", priv |-> FALSE,
     cancelled |-> FALSE, proj |-> 0, profile |-> "", member |-> 0,
     name |-> <<>>, err |-> "", profErr |-> "", rows |-> <<>>, members |-> {},
     newId |-> 0,
     snapP |-> {}, snapM |-> {}]

Live == BagToSet(tasks)

Spawn(t) == tasks (+) SetToBag({t})

Replace(t, u) == (tasks (-) SetToBag({t})) (+) SetToBag({u})

Drop(t) == tasks (-) SetToBag({t})

\* The message of the store when it refuses the request t is waiting for.
ErrorOf(t) ==
    CASE t.pc = "profReq" -> "profiles: permission denied"
      [] t.pc = "projReq" -> "projects: connection lost"
      [] t.pc = "loadReq" -> "project_members: timeout"
      [] t.kind = "add"   -> "project_members: insert refused"
      [] t.kind = "remove" -> "project_members: update refused"
      [] OTHER            -> "projects: insert refused"

\* The store answers a request with rows or with an error.
Outcomes(t) == { "", ErrorOf(t) }

Put(f, k, v) == [x \in DOMAIN f \cup {k} |-> IF x = k THEN v ELSE f[x]]

-----------------------------------------------------------------------------
(* Initial states: the page right after mount, identity still unresolved,  *)
(* over a store that other sessions have filled: two projects of the       *)
(* viewer's organisation, one of another, and memberships of uB.           *)

InitProjects(x) ==
    { ProjectRow(1, "o1", <<"b">>, "true"),
      ProjectRow(2, "o1", <<"a">>, x),
      ProjectRow(3, "o2", <<"c">>, "null") }

InitMembers(y, dup) ==
    { MemberRow(1, 1, "uB", "true"),
      MemberRow(2, 2, "uB", "true"),
      MemberRow(3, 3, "uB", y) }
        \cup (IF dup THEN { MemberRow(4, 1, "uB", "true") } ELSE {})

Mounted ==
    /\ viewer = Unresolved
    /\ projects = <<>>
    /\ orgProfiles = <<>>
    /\ membersByProject = <<>>
    /\ msg = <<>>
    /\ busy = FALSE
    /\ newName = <<>>
    /\ tasks = EmptyBag
    /\ ops = 0
    /\ staleAdd = FALSE

-----------------------------------------------------------------------------
(* The visibility-resolution effect, lines 52-107 *)

\* The cleanup of the effect that ran last: cancelled = true.
Cancelled(B) ==
    LET live == { t \in BagToSet(B) : t.kind = "res" /\ ~t.cancelled }
    IN  IF live = {} THEN B
        ELSE LET t == CHOOSE t \in live : TRUE
             IN  (B (-) SetToBag({t})) (+) SetToBag({[t EXCEPT !.cancelled = TRUE]})

Resolution(v) ==
    [NoTask EXCEPT !.kind = "res", !.pc = "profReq", !.org = v.org,
                   !.uid = v.uid, !.priv = IsAdminOrManager(v)]

\* useProfile() yields another identity; the effect re-runs when its
\* dependency tuple changed, after the cleanup of the previous run.
ViewerChange(v) ==
    /\ v # viewer
    /\ viewer' = v
    /\ IF Deps(v) = Deps(viewer)
         THEN UNCHANGED <<tasks, msg>>
         ELSE IF v.org = "" \/ v.uid = ""
           THEN tasks' = Cancelled(tasks) /\ UNCHANGED msg
           ELSE /\ tasks' = Cancelled(tasks) (+) SetToBag({Resolution(v)})
                /\ msg' = <<>>
    /\ UNCHANGED <<focusUser, projects, orgProfiles, membersByProject, busy,
                   newName, dbProjects, dbMembers>>

\* The store answers the profiles select.
ServeProfiles(t, e) ==
    /\ t.kind = "res" /\ t.pc = "profReq"
    /\ \E rows \in (IF e = "" THEN SelectProfiles(t.org) ELSE { <<>> }) :
          tasks' = Replace(t, [t EXCEPT !.pc = "profResp", !.err = e, !.rows = rows])
    /\ UNCHANGED <<viewer, focusUser, ui, dbProjects, dbMembers, history>>

ProfilesMsg(t) == IF t.err # "" THEN <<t.err>> ELSE msg

ProfilesApplied(t) == ~t.cancelled

\* Lines 68-79: the profiles response arrives; the projects select is issued.
DeliverProfiles(t) ==
    /\ t.kind = "res" /\ t.pc = "profResp"
    /\ IF ProfilesApplied(t)
         THEN msg' = ProfilesMsg(t) /\ orgProfiles' = t.rows
         ELSE UNCHANGED <<msg, orgProfiles>>
    /\ tasks' = Replace(t, [t EXCEPT !.pc = "projReq", !.profErr = t.err,
                                     !.err = "", !.rows = <<>>])
    /\ UNCHANGED <<viewer, focusUser, projects, membersByProject, busy, newName,
                   dbProjects, dbMembers, history>>

\* The store answers the projects select of the privileged path or the
\* membership select of the contractor path.
ServeProjects(t, e) ==
    /\ t.kind = "res" /\ t.pc = "projReq"
    /\ \E rows \in (IF e # "" THEN { <<>> }
                    ELSE IF t.priv THEN SelectProjects(dbProjects, t.org)
                    ELSE SelectMemberProjects(dbProjects, dbMembers, t.uid)) :
          tasks' = Replace(t, [t EXCEPT !.pc = "projResp", !.err = e, !.rows = rows,
                                        !.snapP = dbProjects, !.snapM = dbMembers])
    /\ UNCHANGED <<viewer, focusUser, ui, dbProjects, dbMembers, history>>

\* Variant: the error of the projects fetch replaces the buffer.
AppendMsgReplacing(m, e) == <<e>>

AppendMsg(m, e) == IF m # <<>> THEN m \o <<e>> ELSE <<e>>

NotExplicitlyInactive(p) == p.is_active # "false"

IsRow(p) == p # NullProject

\* Variant: the contractor list without the is_active filter of line 99.
ContractorListUnfiltered(rows) ==
    SelectSeq([i \in DOMAIN rows |-> rows[i].projects], IsRow)

\* Lines 96-99: map to the joined project, filter(Boolean), drop is_active === false.
ContractorList(rows) ==
    SelectSeq(SelectSeq([i \in DOMAIN rows |-> rows[i].projects], IsRow),
              NotExplicitlyInactive)

\* Variant: the response is applied whether or not the effect was cleaned up.
ProjectsAppliedAlways(t) == TRUE

ProjectsApplied(t) == ~t.cancelled

\* Lines 81-84 and 94-100: the projects response arrives.
DeliverProjects(t) ==
    /\ t.kind = "res" /\ t.pc = "projResp"
    /\ IF ProjectsApplied(t)
         THEN /\ msg' = IF t.err # "" THEN AppendMsg(msg, t.err) ELSE msg
              /\ projects' = IF t.priv THEN t.rows ELSE ContractorList(t.rows)
         ELSE UNCHANGED <<msg, projects>>
    /\ tasks' = Drop(t)
    /\ UNCHANGED <<viewer, focusUser, orgProfiles, membersByProject, busy, newName,
                   dbProjects, dbMembers, history>>

-----------------------------------------------------------------------------
(* loadMembers, lines 109-124 *)

LoadTask(p) == [NoTask EXCEPT !.kind = "load", !.pc = "loadReq", !.proj = p]

\* Variant: loadMembers without the setMsg("") of line 110.
LoadMembersKeepingMsg(p) ==
    /\ tasks' = Spawn(LoadTask(p))
    /\ UNCHANGED <<viewer, focusUser, projects, orgProfiles, membersByProject,
                   msg, busy, newName, dbProjects, dbMembers>>

LoadMembers(p) ==
    /\ msg' = <<>>
    /\ tasks' = Spawn(LoadTask(p))
    /\ UNCHANGED <<viewer, focusUser, projects, orgProfiles, membersByProject,
                   busy, newName, dbProjects, dbMembers>>

\* The store answers the membership select of loadMembers, whoever called it.
ServeLoad(t, e) ==
    /\ t.pc = "loadReq"
    /\ tasks' = Replace(t, [t EXCEPT !.pc = "loadResp", !.err = e,
                                     !.members = IF e = "" THEN SelectMembers(dbMembers, t.proj)
                                                 ELSE {}])
    /\ UNCHANGED <<viewer, focusUser, ui, dbProjects, dbMembers, history>>

\* Variant: the response is merged into the rows already held for the project.
LoadedMembersMerged(t) ==
    Put(membersByProject, t.proj,
        (IF t.proj \in DOMAIN membersByProject THEN membersByProject[t.proj] ELSE {})
            \cup t.members)

\* Variant: the new map holds the loaded project only ({ [projectId]: data }).
LoadedMembersAlone(t) == [x \in { t.proj } |-> t.members]

LoadedMembers(t) == Put(membersByProject, t.proj, t.members)

\* Variant: an applied response makes the page forget the other refreshes of
\* the same project that are still in flight.
DeliverLoadCoalescing(t) ==
    /\ t.pc = "loadResp"
    /\ IF t.err # ""
         THEN msg' = <<t.err>> /\ UNCHANGED membersByProject /\ tasks' = Drop(t)
         ELSE /\ membersByProject' = LoadedMembers(t)
              /\ UNCHANGED msg
              /\ tasks' = [u \in { x \in Live : ~(x.proj = t.proj /\
                                      x.pc \in { "loadReq", "loadResp" }) }
                             |-> CopiesIn(u, tasks)]
    /\ UNCHANGED <<viewer, focusUser, projects, orgProfiles, busy, newName,
                   dbProjects, dbMembers, history>>

\* Lines 118-123: the response arrives.
DeliverLoad(t) ==
    /\ t.pc = "loadResp"
    /\ IF t.err # ""
         THEN msg' = <<t.err>> /\ UNCHANGED membersByProject
         ELSE membersByProject' = LoadedMembers(t) /\ UNCHANGED msg
    /\ tasks' = Drop(t)
    /\ UNCHANGED <<viewer, focusUser, projects, orgProfiles, busy, newName,
                   dbProjects, dbMembers, history>>

-----------------------------------------------------------------------------
(* addMember, lines 156-173 *)

AddTask(p, u) ==
    [NoTask EXCEPT !.kind = "add", !.pc = "req", !.org = viewer.org,
                   !.proj = p, !.profile = u]

\* Variant: the blank check comes before the message is cleared.
AddMemberCheckFirst(p, u) ==
    /\ IF u = ""
         THEN UNCHANGED <<msg, tasks>>
         ELSE msg' = <<>> /\ tasks' = Spawn(AddTask(p, u))
    /\ UNCHANGED <<viewer, focusUser, projects, orgProfiles, membersByProject,
                   busy, newName, dbProjects, dbMembers>>

AddMember(p, u) ==
    /\ msg' = <<>>
    /\ tasks' = IF u = "" THEN tasks ELSE Spawn(AddTask(p, u))
    /\ UNCHANGED <<viewer, focusUser, projects, orgProfiles, membersByProject,
                   busy, newName, dbProjects, dbMembers>>

InsertedMember(t) == MemberRow(FreshId(dbMembers), t.proj, t.profile, "true")

\* The store runs the insert, or refuses it.
ServeAdd(t, e) ==
    /\ t.kind = "add" /\ t.pc = "req"
    /\ IF e = ""
         THEN /\ dbMembers' = dbMembers \cup { InsertedMember(t) }
              /\ tasks' = Replace(t, [t EXCEPT !.pc = "resp",
                                               !.newId = InsertedMember(t).id])
         ELSE /\ UNCHANGED dbMembers
              /\ tasks' = Replace(t, [t EXCEPT !.pc = "resp", !.err = e])
    /\ UNCHANGED <<viewer, focusUser, ui, dbProjects, history>>

\* Variant: loadMembers is called whatever the mutation answered.
AfterMutationAlwaysRefresh(t) ==
    /\ msg' = <<>>
    /\ tasks' = Replace(t, [t EXCEPT !.pc = "loadReq", !.err = ""])

\* What a mutation does once its response is in: report, or call loadMembers.
AfterMutation(t) ==
    IF t.err # ""
      THEN msg' = <<t.err>> /\ tasks' = Drop(t)
      ELSE msg' = <<>> /\ tasks' = Replace(t, [t EXCEPT !.pc = "loadReq"])

\* Lines 167-172.
DeliverAdd(t) ==
    /\ t.kind = "add" /\ t.pc = "resp"
    /\ AfterMutation(t)
    /\ UNCHANGED <<viewer, focusUser, projects, orgProfiles, membersByProject,
                   busy, newName, dbProjects, dbMembers, history>>

-----------------------------------------------------------------------------
(* removeMember, lines 175-183 *)

RemoveTask(p, m) ==
    [NoTask EXCEPT !.kind = "remove", !.pc = "req", !.proj = p, !.member = m]

RemoveMember(p, m) ==
    /\ msg' = <<>>
    /\ tasks' = Spawn(RemoveTask(p, m))
    /\ UNCHANGED <<viewer, focusUser, projects, orgProfiles, membersByProject,
                   busy, newName, dbProjects, dbMembers>>

\* Variant: delete from project_members where id = m
DeactivatedByDelete(db, m) == { r \in db : r.id # m }

\* update project_members set is_active = false where id = m
Deactivated(db, m) ==
    { IF r.id = m THEN [r EXCEPT !.is_active = "false"] ELSE r : r \in db }

ServeRemove(t, e) ==
    /\ t.kind = "remove" /\ t.pc = "req"
    /\ dbMembers' = IF e = "" THEN Deactivated(dbMembers, t.member) ELSE dbMembers
    /\ tasks' = Replace(t, [t EXCEPT !.pc = "resp", !.err = e])
    /\ UNCHANGED <<viewer, focusUser, ui, dbProjects, history>>

\* Lines 178-182.
DeliverRemove(t) ==
    /\ t.kind = "remove" /\ t.pc = "resp"
    /\ AfterMutation(t)
    /\ UNCHANGED <<viewer, focusUser, projects, orgProfiles, membersByProject,
                   busy, newName, dbProjects, dbMembers, history>>

-----------------------------------------------------------------------------
(* createProject, lines 126-154 *)

CreateTask ==
    [NoTask EXCEPT !.kind = "create", !.pc = "req", !.org = viewer.org,
                   !.priv = IsAdminOrManager(viewer), !.name = Trim(newName)]

\* Variant: createProject without the role check of lines 128-131.
CreateProjectUnchecked ==
    /\ IF viewer.org = "" \/ Trim(newName) = <<>>
         THEN UNCHANGED <<msg, busy, tasks>>
         ELSE /\ busy' = TRUE
              /\ msg' = <<>>
              /\ tasks' = Spawn(CreateTask)
    /\ UNCHANGED <<viewer, focusUser, projects, orgProfiles, membersByProject,
                   newName, dbProjects, dbMembers>>

\* Variant: createProject resetting busy and msg before it looks at the name.
CreateProjectResetFirst ==
    /\ IF viewer.org = ""
         THEN UNCHANGED <<msg, busy, tasks>>
         ELSE IF ~IsAdminOrManager(viewer)
           THEN msg' = <<RejectMessage>> /\ UNCHANGED <<busy, tasks>>
           ELSE IF Trim(newName) = <<>>
             THEN msg' = <<>> /\ UNCHANGED <<busy, tasks>>
             ELSE /\ busy' = TRUE
                  /\ msg' = <<>>
                  /\ tasks' = Spawn(CreateTask)
    /\ UNCHANGED <<viewer, focusUser, projects, orgProfiles, membersByProject,
                   newName, dbProjects, dbMembers>>

CreateProject ==
    /\ IF viewer.org = ""
         THEN UNCHANGED <<msg, busy, tasks>>
         ELSE IF ~IsAdminOrManager(viewer)
           THEN msg' = <<RejectMessage>> /\ UNCHANGED <<busy, tasks>>
           ELSE IF Trim(newName) = <<>>
             THEN UNCHANGED <<msg, busy, tasks>>
             ELSE /\ busy' = TRUE
                  /\ msg' = <<>>
                  /\ tasks' = Spawn(CreateTask)
    /\ UNCHANGED <<viewer, focusUser, projects, orgProfiles, membersByProject,
                   newName, dbProjects, dbMembers>>

InsertedProject(t) == ProjectRow(FreshId(dbProjects), t.org, t.name, "true")

\* insert ... returning the row (.select().single())
ServeCreate(t, e) ==
    /\ t.kind = "create" /\ t.pc = "req"
    /\ IF e = ""
         THEN /\ dbProjects' = dbProjects \cup { InsertedProject(t) }
              /\ tasks' = Replace(t, [t EXCEPT !.pc = "resp",
                                               !.rows = <<InsertedProject(t)>>])
         ELSE /\ UNCHANGED dbProjects
              /\ tasks' = Replace(t, [t EXCEPT !.pc = "resp", !.err = e])
    /\ UNCHANGED <<viewer, focusUser, ui, dbMembers, history>>

\* Variant: the returned row is appended and the list is not sorted again.
MergedAtEnd(prev, row) == Append(prev, row)

Merged(prev, row) == SortByName(Append(prev, row))

\* Variant: the input is cleared whatever the insert answered.
DeliverCreateClearing(t) ==
    /\ t.kind = "create" /\ t.pc = "resp"
    /\ busy' = FALSE
    /\ newName' = <<>>
    /\ IF t.err # ""
         THEN msg' = <<t.err>> /\ UNCHANGED projects
         ELSE projects' = Merged(projects, t.rows[1]) /\ UNCHANGED msg
    /\ tasks' = Drop(t)
    /\ UNCHANGED <<viewer, focusUser, orgProfiles, membersByProject,
                   dbProjects, dbMembers, history>>

\* Lines 145-153.
DeliverCreate(t) ==
    /\ t.kind = "create" /\ t.pc = "resp"
    /\ busy' = FALSE
    /\ IF t.err # ""
         THEN msg' = <<t.err>> /\ UNCHANGED <<projects, newName>>
         ELSE /\ projects' = Merged(projects, t.rows[1])
              /\ newName' = <<>>
              /\ UNCHANGED msg
    /\ tasks' = Drop(t)
    /\ UNCHANGED <<viewer, focusUser, orgProfiles, membersByProject,
                   dbProjects, dbMembers, history>>

-----------------------------------------------------------------------------
(* The rendered page, lines 245-276 and 289-349 *)

\* Lines 199-207: without a profile the page shows the login prompt only.
Rendered == viewer.uid # ""

ShownIds == { r.id : r \in Range(projects) }

\* membersByProject[p.id] || []
Members(p) == IF p \in DOMAIN membersByProject THEN membersByProject[p] ELSE {}

\* Variant: the candidate filter without the exclusion of line 276.
IsCandidateAnyone(p, x) ==
    /\ x.is_active # "false"
    /\ focusUser # "" => x.id = focusUser

\* Variant: with a focus profile the members are not looked at.
IsCandidateFocusFirst(p, x) ==
    /\ x.is_active # "false"
    /\ IF focusUser # "" THEN x.id = focusUser
                         ELSE ~\E m \in Members(p) : m.profile_id = x.id

IsCandidate(p, x) ==
    /\ x.is_active # "false"
    /\ focusUser # "" => x.id = focusUser
    /\ ~\E m \in Members(p) : m.profile_id = x.id

\* Lines 273-276.
CandidatePeople(p) ==
    LET Keep(x) == IsCandidate(p, x) IN SelectSeq(orgProfiles, Keep)

\* onChange of the name input, enabled for admin/manager only.
SetNewName(s) ==
    /\ IsAdminOrManager(viewer)
    /\ s # newName
    /\ newName' = s
    /\ UNCHANGED <<viewer, focusUser, projects, orgProfiles, membersByProject,
                   msg, busy, dbProjects, dbMembers, tasks, history>>

CreateEnabled == IsAdminOrManager(viewer) /\ ~busy /\ Trim(newName) # <<>>

ClickCreate == CreateEnabled /\ CreateProject

ClickLoad(p) == Rendered /\ p \in ShownIds /\ LoadMembers(p)

SelectCandidate(p, u) ==
    /\ IsAdminOrManager(viewer)
    /\ p \in ShownIds
    /\ u \in { x.id : x \in Range(CandidatePeople(p)) }
    /\ AddMember(p, u)

ClickRemove(p, m) ==
    /\ IsAdminOrManager(viewer)
    /\ p \in ShownIds
    /\ m \in Ids(Members(p))
    /\ RemoveMember(p, m)

\* "Clear focus": router.push("/projects") drops the user parameter.
ClearFocus ==
    /\ IsAdminOrManager(viewer) /\ projects # <<>> /\ focusUser # ""
    /\ focusUser' = ""
    /\ UNCHANGED <<viewer, projects, orgProfiles, membersByProject, msg, busy,
                   newName, dbProjects, dbMembers, tasks, history>>

-----------------------------------------------------------------------------
(* Specifications *)

ProjectIds == Ids(dbProjects)

MemberIds == Ids(dbMembers)

ProfileIds == Ids(DbProfiles)

\* The candidate list of p is fresh: the loaded membership of p is the
\* store's, and no insert for p is waiting to be served.
FreshFor(p) ==
    /\ p \in DOMAIN membersByProject
    /\ membersByProject[p] = SelectMembers(dbMembers, p)
    /\ ~\E t \in Live : t.kind = "add" /\ t.pc = "req" /\ t.proj = p

\* A user action, counted against the bound of the exploration.
Counted(max) == ops < max /\ ops' = ops + 1 /\ UNCHANGED staleAdd

\* The user picks a candidate for p.
Picking(max, p) ==
    ops < max /\ ops' = ops + 1 /\ staleAdd' = (staleAdd \/ ~FreshFor(p))

AnyViewer == Viewers \cup { Unresolved }

\* The whole page as the user drives it.
Init ==
    /\ Mounted
    /\ focusUser = ""
    /\ dbProjects = InitProjects("false")
    /\ dbMembers = InitMembers("null", FALSE)

Next ==
    \/ \E v \in AnyViewer : Counted(MaxOps) /\ ViewerChange(v)
    \/ \E s \in NameInputs : SetNewName(s)
    \/ Counted(MaxOps) /\ ClickCreate
    \/ \E p \in ProjectIds : Counted(MaxOps) /\ ClickLoad(p)
    \/ \E p \in ProjectIds, u \in ProfileIds : Picking(MaxOps, p) /\ SelectCandidate(p, u)
    \/ \E p \in ProjectIds, m \in MemberIds : Counted(MaxOps) /\ ClickRemove(p, m)
    \/ \E t \in Live : \E e \in Outcomes(t) : ServeProfiles(t, e)
    \/ \E t \in Live : DeliverProfiles(t)
    \/ \E t \in Live : \E e \in Outcomes(t) : ServeProjects(t, e)
    \/ \E t \in Live : DeliverProjects(t)
    \/ \E t \in Live : \E e \in Outcomes(t) : ServeLoad(t, e)
    \/ \E t \in Live : DeliverLoad(t)
    \/ \E t \in Live : \E e \in Outcomes(t) : ServeAdd(t, e)
    \/ \E t \in Live : DeliverAdd(t)
    \/ \E t \in Live : \E e \in Outcomes(t) : ServeRemove(t, e)
    \/ \E t \in Live : DeliverRemove(t)
    \/ \E t \in Live : \E e \in Outcomes(t) : ServeCreate(t, e)
    \/ \E t \in Live : DeliverCreate(t)

Spec == Init /\ [][Next]_vars

\* The project list: identity changes, the resolution, and createProject
\* called in any state of the page, over stores of every tri-state mix.
InitProjectList ==
    /\ Mounted
    /\ focusUser = ""
    /\ \E x \in TriState : dbProjects = InitProjects(x)
    /\ \E y \in TriState : dbMembers = InitMembers(y, FALSE)

NextProjectList ==
    \/ \E v \in AnyViewer : Counted(MaxListOps) /\ ViewerChange(v)
    \/ \E s \in NameInputs : SetNewName(s)
    \/ Counted(MaxListOps) /\ CreateProject
    \/ \E t \in Live : \E e \in Outcomes(t) : ServeProfiles(t, e)
    \/ \E t \in Live : DeliverProfiles(t)
    \/ \E t \in Live : \E e \in Outcomes(t) : ServeProjects(t, e)
    \/ \E t \in Live : DeliverProjects(t)
    \/ \E t \in Live : \E e \in Outcomes(t) : ServeCreate(t, e)
    \/ \E t \in Live : DeliverCreate(t)

SpecProjectList == InitProjectList /\ [][NextProjectList]_vars

\* Membership management: one login, then the membership controls of the
\* rendered page, with or without a focus profile, over a store in which
\* no profile is an active member of a project twice.
InitMembership ==
    /\ Mounted
    /\ focusUser \in { "", "uA" }
    /\ dbProjects = InitProjects("true")
    /\ dbMembers = InitMembers("null", FALSE)

Admin == [org |-> "o1", uid |-> "uA", role |-> "admin"]

Login(v) == viewer = Unresolved /\ ViewerChange(v) /\ UNCHANGED history

NextMembership ==
    \/ \E v \in Viewers : Login(v)
    \/ \E p \in ProjectIds : Counted(MaxMemberOps) /\ ClickLoad(p)
    \/ \E p \in ProjectIds, u \in ProfileIds : Picking(MaxMemberOps, p) /\ SelectCandidate(p, u)
    \/ \E p \in ProjectIds, m \in MemberIds : Counted(MaxMemberOps) /\ ClickRemove(p, m)
    \/ \E t \in Live : \E e \in Outcomes(t) : ServeProfiles(t, e)
    \/ \E t \in Live : DeliverProfiles(t)
    \/ \E t \in Live : \E e \in Outcomes(t) : ServeProjects(t, e)
    \/ \E t \in Live : DeliverProjects(t)
    \/ \E t \in Live : \E e \in Outcomes(t) : ServeLoad(t, e)
    \/ \E t \in Live : DeliverLoad(t)
    \/ \E t \in Live : \E e \in Outcomes(t) : ServeAdd(t, e)
    \/ \E t \in Live : DeliverAdd(t)
    \/ \E t \in Live : \E e \in Outcomes(t) : ServeRemove(t, e)
    \/ \E t \in Live : DeliverRemove(t)

SpecMembership == InitMembership /\ [][NextMembership]_vars

\* Managing the access of one profile through the deep link ?user=uA, over
\* a store that may already hold a duplicate active membership.
InitAccess ==
    /\ Mounted
    /\ focusUser = "uA"
    /\ dbProjects = InitProjects("true")
    /\ \E dup \in BOOLEAN : dbMembers = InitMembers("null", dup)

NextAccess ==
    \/ Login(Admin)
    \/ \E p \in ProjectIds : Counted(MaxAccessOps) /\ ClickLoad(p)
    \/ \E p \in ProjectIds, u \in ProfileIds : Picking(MaxAccessOps, p) /\ SelectCandidate(p, u)
    \/ \E p \in ProjectIds, m \in MemberIds : Counted(MaxAccessOps) /\ ClickRemove(p, m)
    \/ \E t \in Live : \E e \in Outcomes(t) : ServeProfiles(t, e)
    \/ \E t \in Live : DeliverProfiles(t)
    \/ \E t \in Live : \E e \in Outcomes(t) : ServeProjects(t, e)
    \/ \E t \in Live : DeliverProjects(t)
    \/ \E t \in Live : \E e \in Outcomes(t) : ServeLoad(t, e)
    \/ \E t \in Live : DeliverLoad(t)
    \/ \E t \in Live : \E e \in Outcomes(t) : ServeAdd(t, e)
    \/ \E t \in Live : DeliverAdd(t)
    \/ \E t \in Live : \E e \in Outcomes(t) : ServeRemove(t, e)
    \/ \E t \in Live : DeliverRemove(t)

SpecAccess == InitAccess /\ [][NextAccess]_vars

\* Project creation on the rendered page across identity changes: a login,
\* then Create clicks and handovers of the page to another identity.
MaxCreateOps == 2

InitCreate ==
    /\ Mounted
    /\ focusUser = ""
    /\ dbProjects = InitProjects("true")
    /\ dbMembers = InitMembers("true", FALSE)

Handover(v) == viewer # Unresolved /\ ViewerChange(v)

TypedName == <<" ", "a", " ">>

Contractor == [org |-> "o1", uid |-> "uB", role |-> "contractor"]

NextCreate ==
    \/ \E v \in { Admin, Contractor } : Login(v)
    \/ \E v \in { Admin, Contractor } : Counted(MaxCreateOps) /\ Handover(v)
    \/ SetNewName(TypedName)
    \/ Counted(MaxCreateOps) /\ ClickCreate
    \/ \E t \in Live : \E e \in Outcomes(t) : ServeProfiles(t, e)
    \/ \E t \in Live : DeliverProfiles(t)
    \/ \E t \in Live : \E e \in Outcomes(t) : ServeProjects(t, e)
    \/ \E t \in Live : DeliverProjects(t)
    \/ \E t \in Live : \E e \in Outcomes(t) : ServeCreate(t, e)
    \/ \E t \in Live : DeliverCreate(t)

SpecCreate == InitCreate /\ [][NextCreate]_vars

\* The handlers called in any state of the page, with any argument: what
\* each does by itself, without the guards of the rendered controls.
MaxHandlerOps == 1

\* The arguments the handlers are called with.
ArgProject == 1

ArgProfile == "uA"

ArgMember == 1

InitHandlers ==
    /\ Mounted
    /\ focusUser = ""
    /\ dbProjects = InitProjects("true")
    /\ dbMembers = InitMembers("null", FALSE)

NextHandlers ==
    \/ \E v \in { Admin, Contractor } : Login(v)
    \/ \E s \in NameInputs : SetNewName(s)
    \/ Counted(MaxHandlerOps) /\ CreateProject
    \/ Counted(MaxHandlerOps) /\ LoadMembers(ArgProject)
    \/ Counted(MaxHandlerOps) /\ AddMember(ArgProject, "")
    \/ Picking(MaxHandlerOps, ArgProject) /\ AddMember(ArgProject, ArgProfile)
    \/ Counted(MaxHandlerOps) /\ RemoveMember(ArgProject, ArgMember)
    \/ \E t \in Live : \E e \in Outcomes(t) : ServeProfiles(t, e)
    \/ \E t \in Live : DeliverProfiles(t)
    \/ \E t \in Live : \E e \in Outcomes(t) : ServeProjects(t, e)
    \/ \E t \in Live : DeliverProjects(t)
    \/ \E t \in Live : \E e \in Outcomes(t) : ServeLoad(t, e)
    \/ \E t \in Live : DeliverLoad(t)
    \/ \E t \in Live : \E e \in Outcomes(t) : ServeAdd(t, e)
    \/ \E t \in Live : DeliverAdd(t)
    \/ \E t \in Live : \E e \in Outcomes(t) : ServeRemove(t, e)
    \/ \E t \in Live : DeliverRemove(t)
    \/ \E t \in Live : \E e \in Outcomes(t) : ServeCreate(t, e)
    \/ \E t \in Live : DeliverCreate(t)

SpecHandlers == InitHandlers /\ [][NextHandlers]_vars

\* The whole page in one session: a login, then every control of the
\* rendered page and handovers of the page to another identity.
MaxPageOps == 2

NextPage ==
    \/ Login(Admin)
    \/ \E v \in { Admin, Contractor } : Counted(MaxPageOps) /\ Handover(v)
    \/ SetNewName(TypedName)
    \/ Counted(MaxPageOps) /\ ClickCreate
    \/ \E p \in ProjectIds : Counted(MaxPageOps) /\ ClickLoad(p)
    \/ \E p \in ProjectIds, u \in ProfileIds : Picking(MaxPageOps, p) /\ SelectCandidate(p, u)
    \/ \E p \in ProjectIds, m \in MemberIds : Counted(MaxPageOps) /\ ClickRemove(p, m)
    \/ \E t \in Live : \E e \in Outcomes(t) : ServeProfiles(t, e)
    \/ \E t \in Live : DeliverProfiles(t)
    \/ \E t \in Live : \E e \in Outcomes(t) : ServeProjects(t, e)
    \/ \E t \in Live : DeliverProjects(t)
    \/ \E t \in Live : \E e \in Outcomes(t) : ServeLoad(t, e)
    \/ \E t \in Live : DeliverLoad(t)
    \/ \E t \in Live : \E e \in Outcomes(t) : ServeAdd(t, e)
    \/ \E t \in Live : DeliverAdd(t)
    \/ \E t \in Live : \E e \in Outcomes(t) : ServeRemove(t, e)
    \/ \E t \in Live : DeliverRemove(t)
    \/ \E t \in Live : \E e \in Outcomes(t) : ServeCreate(t, e)
    \/ \E t \in Live : DeliverCreate(t)

SpecPage == InitHandlers /\ [][NextPage]_vars

-----------------------------------------------------------------------------
(* Properties of visibility resolution *)

NoResolutionRunning == ~\E t \in Live : t.kind = "res" /\ ~t.cancelled

\* C1: a resolution whose effect has been cleaned up (the identity changed)
\* writes nothing when its responses arrive: the delivery of its profiles
\* response and of its projects response leave projects, orgProfiles and
\* msg as they were.
CancelledResolutionWritesNothing ==
    [][\A t \in Live :
          (t.kind = "res" /\ t.cancelled /\ (DeliverProfiles(t) \/ DeliverProjects(t)))
              => UNCHANGED <<projects, orgProfiles, msg>>]_vars

\* The membership select of a contractor has been answered with projects,
\* the identity has since become an admin whose own list is on the page,
\* and the stale answer is about to arrive.
StaleContractorAnswerPending ==
    \E t \in Live :
        /\ t.kind = "res" /\ t.cancelled /\ ~t.priv
        /\ t.pc = "projResp" /\ t.err = ""
        /\ ContractorList(t.rows) # <<>>
        /\ viewer.role = "admin"
        /\ NoResolutionRunning
        /\ projects \in SelectProjects(dbProjects, viewer.org)
        /\ projects # ContractorList(t.rows)

\* The projects a contractor may see, from the tables: an active membership
\* row of the user, and a project not explicitly inactive.
VisibleTo(uid, dbP, dbM) ==
    { p \in dbP :
        /\ p.is_active # "false"
        /\ \E m \in dbM : /\ m.project_id = p.id
                           /\ m.profile_id = uid
                           /\ m.is_active = "true" }

\* C2: when the resolution of a contractor completes without error and
\* uncancelled, projects holds exactly the projects for which the store, as
\* it answered, had an active membership row of the user and whose is_active
\* was not false (null counts as active).
ContractorSeesMemberProjects ==
    [][\A t \in Live :
          (DeliverProjects(t) /\ ~t.cancelled /\ ~t.priv /\ t.err = "")
              => Range(projects') = VisibleTo(t.uid, t.snapP, t.snapM)]_vars

\* A contractor's page after resolution: a project with is_active null is
\* listed, a project of the user with is_active false is not.
ContractorListResolved ==
    /\ viewer.role = "contractor"
    /\ tasks = EmptyBag
    /\ msg = <<>>
    /\ Range(projects) = VisibleTo(viewer.uid, dbProjects, dbMembers)
    /\ \E p \in Range(projects) : p.is_active = "null"
    /\ \E p \in dbProjects :
          /\ p.is_active = "false"
          /\ \E m \in dbMembers : /\ m.project_id = p.id
                                   /\ m.profile_id = viewer.uid
                                   /\ m.is_active = "true"

\* C3: when the resolution of an admin or manager completes without error
\* and uncancelled, projects holds every project of the organisation, active
\* or not and whatever the memberships, each once, in ascending name order.
PrivilegedSeesOrgProjects ==
    [][\A t \in Live :
          (DeliverProjects(t) /\ ~t.cancelled /\ t.priv /\ t.err = "")
              => /\ Range(projects') = { p \in t.snapP : p.org_id = t.org }
                 /\ Len(projects') = Cardinality({ p \in t.snapP : p.org_id = t.org })
                 /\ IsSortedByName(projects')]_vars

\* A manager's page after resolution: both projects of the organisation in
\* name order, the inactive one included, the manager a member of none.
ManagerListResolved ==
    /\ viewer.role = "manager"
    /\ tasks = EmptyBag
    /\ msg = <<>>
    /\ Len(projects) = 2
    /\ projects[1].name = <<"a">> /\ projects[2].name = <<"b">>
    /\ \E i \in DOMAIN projects : projects[i].is_active = "false"
    /\ ~\E m \in dbMembers : m.profile_id = viewer.uid
    /\ \E p \in dbProjects : p.org_id # viewer.org

\* C4: a failed response changes the message buffer only: the delivery of
\* an error leaves projects, orgProfiles and membersByProject as they were.
ErrorsKeepLoadedData ==
    [][\A t \in Live :
          (t.err # "" /\ (\/ DeliverProfiles(t) \/ DeliverProjects(t)
                          \/ DeliverLoad(t) \/ DeliverAdd(t)
                          \/ DeliverRemove(t) \/ DeliverCreate(t)))
              => UNCHANGED <<projects, orgProfiles, membersByProject>>]_vars

-----------------------------------------------------------------------------
(* Properties of membership management *)

\* C5: when the response of loadMembers(p) arrives, a success makes the
\* entry of p exactly the rows the store returned (nothing of the previous
\* entry survives) and leaves the entries of other projects alone; a failure
\* leaves membersByProject as it was, an absent entry staying absent, and
\* puts the store's message in msg.
LoadReplacesOrKeeps ==
    [][\A t \in Live :
          DeliverLoad(t) =>
              IF t.err = ""
                THEN /\ DOMAIN membersByProject' = DOMAIN membersByProject \cup { t.proj }
                     /\ membersByProject'[t.proj] = t.members
                     /\ \A q \in DOMAIN membersByProject \ { t.proj } :
                           membersByProject'[q] = membersByProject[q]
                ELSE /\ membersByProject' = membersByProject
                     /\ msg' = <<t.err>>]_vars

\* The entry of project 1 was loaded, then replaced by a refresh that no
\* longer holds the removed row 1; a later load failed, its message is
\* shown, and the entry of project 2 is still absent.
LoadFailedAfterReplacement ==
    /\ tasks = EmptyBag
    /\ msg = <<"project_members: timeout">>
    /\ 1 \in DOMAIN membersByProject
    /\ 2 \notin DOMAIN membersByProject /\ 2 \in ShownIds
    /\ MemberRow(1, 1, "uB", "false") \in dbMembers
    /\ ~\E m \in membersByProject[1] : m.id = 1

\* C6: removeMember is a soft delete.  When the refresh of a successful
\* removeMember(p, m) is applied, row m is in the store with is_active false
\* and is not in membersByProject[p]; no step deletes a row of the store;
\* and the update changes no row but m.
RemoveIsSoftDelete ==
    [][/\ \A t \in Live :
            (DeliverLoad(t) /\ t.kind = "remove" /\ t.err = "")
                => /\ \E r \in dbMembers' : r.id = t.member /\ r.is_active = "false"
                   /\ ~\E r \in membersByProject'[t.proj] : r.id = t.member
       /\ Ids(dbMembers) \subseteq Ids(dbMembers')
       /\ Ids(dbProjects) \subseteq Ids(dbProjects')
       /\ \A t \in Live :
            ServeRemove(t, "")
                => \A r \in dbMembers : r.id # t.member => r \in dbMembers']_vars

\* Row 1 of uB in project 1 has been removed and the refresh applied: the
\* row is in the store, inactive; the second row of uB in the same project
\* is still active and listed.
RemovedRowKept ==
    /\ tasks = EmptyBag
    /\ msg = <<>>
    /\ MemberRow(1, 1, "uB", "false") \in dbMembers
    /\ 1 \in DOMAIN membersByProject
    /\ membersByProject[1] = { MemberRow(4, 1, "uB", "true") }
    /\ MemberRow(4, 1, "uB", "true") \in dbMembers

\* No profile is an active member of a project twice.
OneActivePerPair(db) ==
    \A a, b \in db :
        (/\ a.project_id = b.project_id /\ a.profile_id = b.profile_id
         /\ a.is_active = "true" /\ b.is_active = "true") => a = b

\* C7, as stated: in every reachable state of the store, each
\* (project_id, profile_id) pair has at most one active membership row,
\* members being added only by picking from the candidate list of a project.
AtMostOneActiveMembership == OneActivePerPair(dbMembers)

\* C7, amended: each (project_id, profile_id) pair has at most one active
\* membership row as long as every pick was made from a fresh candidate
\* list: the membership of the project loaded, equal to the store's active
\* rows of the project, and no earlier insert for the project unanswered.
AtMostOneActiveWhenFresh == ~staleAdd => OneActivePerPair(dbMembers)

\* A profile has been added to a project from a fresh candidate list.
AddedFromFreshList ==
    /\ ~staleAdd
    /\ \E r \in dbMembers :
          r.id \notin Ids(InitMembers("null", FALSE)) /\ r.is_active = "true"

\* What every step of addMember does, whatever the refresh then shows: the
\* refresh is issued when the insert's response arrives and only if the
\* insert succeeded; a failed insert ends the call with membersByProject
\* unchanged; an applied refresh stores rows of the store.
AddRefreshesAfterInsert ==
    /\ \A t \in Live :
          (t.kind = "add" /\ t.pc \in { "loadReq", "loadResp" }) => t.newId # 0
    /\ \A t \in Live :
          DeliverAdd(t) =>
              IF t.err = ""
                THEN /\ t.newId # 0
                     /\ tasks' = Replace(t, [t EXCEPT !.pc = "loadReq"])
                ELSE /\ tasks' = Drop(t)
                     /\ membersByProject' = membersByProject
    /\ \A t \in Live :
          (DeliverLoad(t) /\ t.kind = "add" /\ t.err = "")
              => /\ membersByProject'[t.proj] = t.members
                 /\ Ids(t.members) \subseteq Ids(dbMembers)

\* C8, as stated: addMember refreshes after a successful insert only, and
\* when insert and refresh both succeed membersByProject[p] then holds a
\* row of the added profile.
AddThenListed ==
    [][/\ AddRefreshesAfterInsert
       /\ \A t \in Live :
            (DeliverLoad(t) /\ t.kind = "add" /\ t.err = "")
                => \E r \in membersByProject'[t.proj] : r.profile_id = t.profile]_vars

\* C8, amended: addMember refreshes after a successful insert only, and
\* when insert and refresh both succeed membersByProject[p] then holds the
\* inserted row unless a removeMember has deactivated that row before the
\* refresh was answered.
AddThenListedUnlessRemoved ==
    [][/\ AddRefreshesAfterInsert
       /\ \A t \in Live :
            (DeliverLoad(t) /\ t.kind = "add" /\ t.err = "")
                => \E r \in dbMembers :
                      /\ r.id = t.newId /\ r.profile_id = t.profile
                      /\ r \in membersByProject'[t.proj] \/ r.is_active = "false"]_vars

\* The refresh of an addMember has been answered without the inserted row,
\* which a removeMember deactivated in between.
RefreshAnsweredAfterRemoval ==
    \E t \in Live :
        /\ t.kind = "add" /\ t.pc = "loadResp" /\ t.err = ""
        /\ ~\E r \in t.members : r.profile_id = t.profile
        /\ \E r \in dbMembers : r.id = t.newId /\ r.is_active = "false"

-----------------------------------------------------------------------------
(* Properties of project creation *)

NoCreateRunning == ~\E t \in Live : t.kind = "create"

\* C9: createProject called for a viewer with an organisation who is neither
\* admin nor manager issues no request to the store, leaves projects and
\* newName unchanged and sets msg to the rejection message.
UnprivilegedCreateRejected ==
    [][(CreateProject /\ viewer.org # "" /\ ~IsAdminOrManager(viewer))
          => /\ tasks' = tasks
             /\ dbProjects' = dbProjects
             /\ projects' = projects
             /\ newName' = newName
             /\ busy' = busy
             /\ msg' = <<RejectMessage>>]_vars

\* A contractor has called createProject: the rejection is shown, nothing
\* was sent to the store.
ContractorCreateRejected ==
    /\ viewer.role = "contractor"
    /\ msg = <<RejectMessage>>
    /\ NoCreateRunning
    /\ ~busy
    /\ dbProjects \in { InitProjects(x) : x \in TriState }

\* C10: createProject called for an admin or manager while the name is empty
\* after trimming inserts nothing and changes nothing: projects, newName,
\* busy and msg keep their values, a message already shown included.
BlankNameCreateIsNoOp ==
    [][(CreateProject /\ viewer.org # "" /\ IsAdminOrManager(viewer)
                      /\ Trim(newName) = <<>>)
          => UNCHANGED <<projects, newName, busy, msg, tasks, dbProjects>>]_vars

\* An admin or manager has typed blanks only, the page shows the message of
\* a failed fetch, and createProject can be called in this state.
BlankNameSubmittable ==
    /\ IsAdminOrManager(viewer)
    /\ newName # <<>> /\ Trim(newName) = <<>>
    /\ msg # <<>>
    /\ ~busy
    /\ ops < MaxListOps

\* The number of entries of the list s equal to r.
Count(r, s) == Cardinality({ i \in DOMAIN s : s[i] = r })

\* C11: when the answer of a successful insert of createProject arrives, the
\* new project list is the previous list plus exactly the returned row, and
\* is in ascending name order as a whole, whatever the order of the previous
\* list was.
CreatedRowMergedInOrder ==
    [][\A t \in Live :
          (DeliverCreate(t) /\ t.err = "")
              => /\ Len(projects') = Len(projects) + 1
                 /\ \A r \in Range(projects') \cup Range(projects) \cup { t.rows[1] } :
                       Count(r, projects') =
                           Count(r, projects) + (IF r = t.rows[1] THEN 1 ELSE 0)
                 /\ IsSortedByName(projects')]_vars

\* The insert of an admin has succeeded and its answer is about to be merged
\* into a list that is not in name order (the unordered list of the
\* contractor who had the page before); the new name sorts before the last
\* entry.
CreatedRowMeetsUnsortedList ==
    \E t \in Live :
        /\ t.kind = "create" /\ t.pc = "resp" /\ t.err = ""
        /\ projects # <<>>
        /\ ~IsSortedByName(projects)
        /\ StrLess(t.rows[1].name, projects[Len(projects)].name)

\* C12: when the insert of createProject fails, the project list is
\* unchanged, msg is the store's message, busy is false again and newName
\* keeps its text; the page empties a non-empty newName only when the answer
\* of a successful insert arrives.
CreateFailureKeepsInput ==
    [][/\ \A t \in Live :
            (DeliverCreate(t) /\ t.err # "")
                => /\ projects' = projects
                   /\ msg' = <<t.err>>
                   /\ busy' = FALSE
                   /\ newName' = newName
       /\ (newName # <<>> /\ newName' = <<>>)
            => \E t \in Live : DeliverCreate(t) /\ t.err = ""]_vars

\* A create has failed: its message is shown, the typed name is still in
\* the input, the button is free again, nothing was inserted.
CreateFailedInputKept ==
    /\ msg = <<"projects: insert refused">>
    /\ ~busy
    /\ Trim(newName) # <<>>
    /\ NoCreateRunning
    /\ Cardinality(dbProjects) = 3
    /\ projects # <<>>

-----------------------------------------------------------------------------
(* Properties of the handlers called directly, and of the message buffer *)

\* What addMember with a blank profile id leaves alone in any case.
BlankAddFrame ==
    /\ tasks' = tasks
    /\ UNCHANGED <<membersByProject, projects, orgProfiles, busy, newName,
                   dbMembers, dbProjects>>

\* C13, as stated: addMember(p, "") issues no request and leaves all state
\* unchanged, the message buffer included.
BlankAddChangesNothing ==
    [][(\E p \in ProjectIds : AddMember(p, ""))
          => BlankAddFrame /\ msg' = msg]_vars

\* C13, amended: addMember(p, "") issues no request, reports no error and
\* leaves membersByProject, projects, orgProfiles and the store unchanged,
\* but empties the message buffer (setMsg("") runs before the blank check).
BlankAddClearsMessageOnly ==
    [][(\E p \in ProjectIds : AddMember(p, ""))
          => BlankAddFrame /\ msg' = <<>>]_vars

\* The profiles fetch of the login failed, so a message was shown; the one
\* handler call made since has left no request, no row and no loaded
\* membership behind, and the message is gone: it was addMember(p, "").
BlankAddDone ==
    /\ ops = 1
    /\ viewer # Unresolved
    /\ tasks = EmptyBag
    /\ orgProfiles = <<>> /\ projects # <<>>
    /\ msg = <<>>
    /\ membersByProject = <<>>
    /\ ~busy
    /\ dbMembers = InitMembers("null", FALSE)
    /\ dbProjects = InitProjects("true")

\* The response t carries an error that the page reports.
ReportsError(t) ==
    /\ t.err # ""
    /\ \/ ~t.cancelled /\ (DeliverProfiles(t) \/ DeliverProjects(t))
       \/ DeliverLoad(t) \/ DeliverAdd(t) \/ DeliverRemove(t) \/ DeliverCreate(t)

IsPrefix(a, b) == Len(a) <= Len(b) /\ SubSeq(b, 1, Len(a)) = a

CreateIgnored ==
    viewer.org = "" \/ (IsAdminOrManager(viewer) /\ Trim(newName) = <<>>)

\* A call of one of the member handlers, whatever its arguments.
MemberHandlerCalled ==
    \/ \E p \in ProjectIds : LoadMembers(p)
    \/ \E p \in ProjectIds : \E u \in ProfileIds \cup { "" } : AddMember(p, u)
    \/ \E p \in ProjectIds : \E m \in MemberIds : RemoveMember(p, m)

\* The effect runs for a resolved identity.
ResolutionStarted ==
    \E v \in Viewers : ViewerChange(v) /\ Deps(v) # Deps(viewer)

\* C15, as stated: every action attempt (a resolution run, loadMembers,
\* addMember, removeMember, createProject) removes the messages of earlier
\* actions from the buffer at its start, attempts that end as a validation
\* no-op or as a rejection included: after the start msg is empty, or is
\* the rejection of this very attempt.
EveryAttemptClearsBuffer ==
    [][(MemberHandlerCalled \/ ResolutionStarted \/ CreateProject)
          => \/ msg' = <<>>
             \/ msg' = <<RejectMessage>> /\ CreateProject /\ ~IsAdminOrManager(viewer)]_vars

\* C15, amended: a resolution run, loadMembers, addMember (blank profile
\* included) and removeMember empty the buffer at their start; createProject
\* empties it only when it goes on to insert, replaces it by the rejection
\* for an unprivileged viewer, and leaves it as it is when it returns at
\* once for a missing organisation or a blank name.
AttemptClearsBufferUnlessIgnored ==
    [][/\ (MemberHandlerCalled \/ ResolutionStarted) => msg' = <<>>
       /\ CreateProject =>
            msg' = IF CreateIgnored THEN msg
                   ELSE IF ~IsAdminOrManager(viewer) THEN <<RejectMessage>>
                   ELSE <<>>]_vars

\* The profiles fetch of the login has failed and its message was shown;
\* loadMembers has just been called and the buffer is empty again.
LoadStartClearedMessage ==
    /\ ops = 1
    /\ orgProfiles = <<>> /\ projects # <<>>
    /\ msg = <<>>
    /\ \E t \in Live : t.kind = "load" /\ t.pc = "loadReq"

-----------------------------------------------------------------------------
(* Properties of the candidate list and of the membership cache *)

\* a is a subsequence of b.
RECURSIVE IsSubsequence(_, _)
IsSubsequence(a, b) ==
    IF a = <<>> THEN TRUE
    ELSE IF b = <<>> THEN FALSE
    ELSE IF Head(a) = Head(b) THEN IsSubsequence(Tail(a), Tail(b))
    ELSE IsSubsequence(a, Tail(b))

\* C16: for every project p whose membership has been loaded, no profile of
\* a row of membersByProject[p] is in the candidate list of p, and the list
\* is exactly the profiles of orgProfiles that are not inactive, narrowed to
\* the focus profile when there is one, minus those members, in the order
\* of orgProfiles.
CandidatesExcludeMembers ==
    \A p \in DOMAIN membersByProject :
        LET c    == CandidatePeople(p)
            mem  == { m.profile_id : m \in membersByProject[p] }
            want == { x \in Range(orgProfiles) :
                        /\ x.is_active # "false"
                        /\ focusUser = "" \/ x.id = focusUser
                        /\ x.id \notin mem }
        IN  /\ \A i \in DOMAIN c : c[i].id \notin mem
            /\ Range(c) = want
            /\ Len(c) = Cardinality(want)
            /\ IsSubsequence(c, orgProfiles)

\* The members of project 1 are loaded, uB is one of them, and the
\* candidate list of project 1 is uA and uM, in the order of orgProfiles.
CandidatesWithoutLoadedMember ==
    /\ focusUser = ""
    /\ Len(orgProfiles) = 3
    /\ 1 \in DOMAIN membersByProject
    /\ \E m \in membersByProject[1] : m.profile_id = "uB"
    /\ [i \in DOMAIN CandidatePeople(1) |-> CandidatePeople(1)[i].id] = <<"uA", "uM">>

\* Another refresh of the project of t is in flight.
OtherRefreshInFlight(t) ==
    \/ CopiesIn(t, tasks) > 1
    \/ \E u \in Live :
          u # t /\ u.proj = t.proj /\ u.pc \in { "loadReq", "loadResp" }

\* C17: while several refreshes of one project are in flight, each response
\* that arrives with rows makes them the entry of the project, whichever
\* request was issued first, and the other refreshes stay in flight: the
\* response that arrives last is the one the entry ends with.
LastRefreshWins ==
    [][\A t \in Live :
          (DeliverLoad(t) /\ t.err = "" /\ OtherRefreshInFlight(t))
              => /\ membersByProject'[t.proj] = t.members
                 /\ CopiesIn(t, tasks') = CopiesIn(t, tasks) - 1
                 /\ \A u \in Live : u # t => CopiesIn(u, tasks') = CopiesIn(u, tasks)]_vars

\* Row 1 was removed and the refresh of the removal, answered without it,
\* has been applied; a refresh answered before the removal arrived after
\* it: the entry of project 1 shows the row as active, the store has it
\* inactive, and nothing is in flight any more.
StaleRefreshArrivedLast ==
    /\ tasks = EmptyBag
    /\ msg = <<>>
    /\ DOMAIN membersByProject = { 1 }
    /\ MemberRow(1, 1, "uB", "true") \in membersByProject[1]
    /\ MemberRow(1, 1, "uB", "false") \in dbMembers

-----------------------------------------------------------------------------
(* Properties of the writes to the project list and to the membership cache *)

\* C18: the project list never holds two entries with the same project id.
ProjectListHasDistinctIds ==
    \A i, j \in DOMAIN projects : projects[i].id = projects[j].id => i = j

\* C19: every write to the project list comes from an operation started
\* under the current (org_id, userId, isAdminOrManager): the answer of a
\* createProject or of a resolution started under another identity leaves
\* the list as it is.
ListWrittenUnderCurrentIdentity ==
    [][\A t \in Live :
          /\ (DeliverCreate(t)
                 /\ <<t.org, t.priv>> # <<viewer.org, IsAdminOrManager(viewer)>>)
                => projects' = projects
          /\ (DeliverProjects(t) /\ <<t.org, t.uid, t.priv>> # Deps(viewer))
                => projects' = projects]_vars

\* The entry of project q is not the same before and after the step.
EntryChanged(q) ==
    \/ (q \in DOMAIN membersByProject) # (q \in DOMAIN membersByProject')
    \/ /\ q \in DOMAIN membersByProject /\ q \in DOMAIN membersByProject'
       /\ membersByProject[q] # membersByProject'[q]

\* C20: the entry membersByProject[q] changes only in the step that applies
\* a successful loadMembers(q) response; responses for other projects, the
\* calls of addMember, removeMember and createProject, the resolution and a
\* change of identity leave it as it is.
EntryChangesOnlyByItsLoad ==
    [][\A q \in ProjectIds :
          EntryChanged(q)
              => \E t \in Live : DeliverLoad(t) /\ t.err = "" /\ t.proj = q]_vars

\* The members of projects 1 and 2 have both been loaded, and each entry
\* holds the rows of its own project.
TwoEntriesLoaded ==
    /\ tasks = EmptyBag
    /\ DOMAIN membersByProject = { 1, 2 }
    /\ membersByProject[1] = SelectMembers(dbMembers, 1)
    /\ membersByProject[2] = SelectMembers(dbMembers, 2)
    /\ membersByProject[1] # {} /\ membersByProject[2] # {}

=============================================================================
